---- MODULE Spec2Model ----
(***************************************************************************)
(* A model of the GitHub ETL pipeline: the loader (src/src/load.py), the   *)
(* rate-limited, paginated extractor (src/src/extract.py) and the          *)
(* transformer (src/src/transform.py).                                     *)
(*                                                                         *)
(* The store is DuckDB used through its Python client.  The client runs    *)
(* every statement in autocommit mode unless a transaction is begun; the   *)
(* loader never begins one, so each conn.execute() takes effect on its own *)
(* and the trailing conn.commit() finds nothing to commit.                 *)
(***************************************************************************)
EXTENDS Integers, Sequences, FiniteSets, TLC

VARIABLES
    tbl,        \* the destination table of the store file
    last,       \* the last write_frame call: its mode and its outcome
    seen,       \* column names of the frames written since the table was last dropped
    file,       \* the store file exists
    shown,      \* the last preview call: its n, its outcome and the rows it returned
    rows_in,    \* transform: the list of records passed in
    strict_str, \* the polars build: .str on a column of dtype Null is rejected
    df_polars,  \* transform: the frame as of the last stage
    tpc,        \* where transform is: start, typed, derived, returned, raised
    cfg,        \* load_config(): org and repos
    merges,     \* the httpx build: params are merged into the URL's query, or replace it
    pages,      \* the number of pages the API serves for the organization
    pc,         \* where fetch_all is: start, list, fetch, returned, raised
    req,        \* the arguments of the _request call in progress
    phase,      \* the _request loop: idle, send, sleep (in time.sleep), resend
    wake,       \* when the sleep in progress ends
    clock,      \* the time, in ticks
    log,        \* the requests sent so far, each with the response it got
    calls,      \* the number of _request calls made so far
    retries,    \* the number of rate-limited responses so far
    repos,      \* list_org_repos: the names gathered so far
    repo_list,  \* fetch_all: the names to fetch
    records,    \* fetch_all: the records built so far
    result      \* what fetch_all returned

loadVars == <<tbl, last, seen, file, shown>>
transformVars == <<rows_in, strict_str, df_polars, tpc>>
extractVars == <<cfg, merges, pages, pc, req, phase, wake, clock, log, calls, retries,
                 repos, repo_list, records, result>>
vars == <<tbl, last, seen, file, shown, cfg, merges, pages, pc, req, phase, wake, clock,
          log, calls, retries, repos, repo_list, records, result,
          rows_in, strict_str, df_polars, tpc>>

(***************************************************************************)
(* Bounds                                                                  *)
(***************************************************************************)
MaxRows == 2          \* rows of a frame
MaxPages == 2         \* pages of the organization's repository list
MaxRetries == 2       \* rate-limited responses in one run
MaxRequests == 6      \* requests of one listing
TicksPerSec == 2      \* clock ticks in a second

(***************************************************************************)
(* Values.  One record shape for every cell, so that cells of different    *)
(* SQL types can be compared.                                              *)
(***************************************************************************)
VInt(n) == [k |-> "int", n |-> n, s |-> ""]
VStr(s) == [k |-> "str", n |-> 0, s |-> s]
VNull == [k |-> "null", n |-> 0, s |-> ""]

RECURSIVE PickFrom(_, _, _)
PickFrom(s, I, i) ==
    IF i > Len(s) THEN <<>>
    ELSE (IF i \in I THEN <<s[i]>> ELSE <<>>) \o PickFrom(s, I, i + 1)

\* The subsequence of s at the indices I, in order.
Pick(s, I) == PickFrom(s, I, 1)

(***************************************************************************)
(* Frames: a polars DataFrame is a sequence of named, typed columns and a  *)
(* sequence of rows.                                                       *)
(***************************************************************************)
ColNames == {"id", "a"}

\* The Arrow type of a frame column (df.schema_arrow).
FrameTypes(name) == IF name = "id" THEN {"int64"} ELSE {"int64", "large_string"}

\* The values a frame holds in a column: two ids; one number or one string
\* elsewhere.
FrameValues(name, dtype) ==
    IF name = "id" THEN {VInt(1), VInt(2)}
    ELSE IF dtype = "int64" THEN {VInt(1)} ELSE {VStr("x")}

NameSeqs ==
    {s \in UNION {[1..n -> ColNames] : n \in 0..Cardinality(ColNames)} :
        \A i, j \in DOMAIN s : i # j => s[i] # s[j]}

ColSeqs ==
    UNION {{[i \in DOMAIN ns |-> [name |-> ns[i], dtype |-> ts[i]]] :
              ts \in {t \in [DOMAIN ns -> {"int64", "large_string"}] :
                         \A i \in DOMAIN ns : t[i] \in FrameTypes(ns[i])}} :
           ns \in NameSeqs}

RowsOf(cols) ==
    IF cols = <<>> THEN {<<>>}
    ELSE UNION {[1..n -> {r \in [DOMAIN cols -> {VInt(1), VInt(2), VStr("x")}] :
                             \A i \in DOMAIN cols : r[i] \in FrameValues(cols[i].name, cols[i].dtype)}] :
                n \in 0..MaxRows}

Frames == UNION {{[cols |-> cs, rows |-> rs] : rs \in RowsOf(cs)} : cs \in ColSeqs}

Modes == {"append", "overwrite", "replace"}

\* df.columns
Columns(df) == {df.cols[i].name : i \in DOMAIN df.cols}

\* df.is_empty(): the frame has no rows
is_empty(df) == df.rows = <<>>

(***************************************************************************)
(* The type mapping of _prepare_table and _add_missing_columns.            *)
(* field.type.to_pandas_dtype() is pyarrow's: a numpy scalar class for the *)
(* integer, float, boolean and string types, a numpy dtype for timestamps; *)
(* the code looks str() of it up in its dictionary.                        *)
(***************************************************************************)
to_pandas_dtype_str(arrowType) ==
    CASE arrowType = "int64" -> "<class 'numpy.int64'>"
      [] arrowType = "double" -> "<class 'numpy.float64'>"
      [] arrowType = "bool" -> "<class 'numpy.bool_'>"
      [] arrowType = "large_string" -> "<class 'numpy.object_'>"
      [] arrowType = "timestamp[us]" -> "datetime64[us]"
      [] arrowType = "timestamp[ns]" -> "datetime64[ns]"
      [] OTHER -> "<class 'numpy.object_'>"

duck_type(arrowType) ==
    LET dtype == to_pandas_dtype_str(arrowType) IN
    CASE dtype = "int64" -> "BIGINT"
      [] dtype = "float64" -> "DOUBLE"
      [] dtype = "object" -> "VARCHAR"
      [] dtype = "bool" -> "BOOLEAN"
      [] dtype = "datetime64[ns]" -> "TIMESTAMP"
      [] OTHER -> "VARCHAR"

(***************************************************************************)
(* The store's implicit cast of an inserted value to the column's type.    *)
(***************************************************************************)
IntStr(n) == CASE n = 0 -> "0" [] n = 1 -> "1" [] n = 2 -> "2" [] OTHER -> "9"

IsNumeral(s) == s \in {"0", "1", "2"}

StrInt(s) == CASE s = "0" -> 0 [] s = "1" -> 1 [] s = "2" -> 2 [] OTHER -> 0

CanCast(v, sqlType) ==
    \/ v.k = "null"
    \/ sqlType = "VARCHAR"
    \/ sqlType = "BIGINT" /\ (v.k = "int" \/ IsNumeral(v.s))

Cast(v, sqlType) ==
    CASE v.k = "null" -> VNull
      [] v.k = "int" /\ sqlType = "VARCHAR" -> VStr(IntStr(v.n))
      [] v.k = "str" /\ sqlType = "BIGINT" -> VInt(StrInt(v.s))
      [] OTHER -> v

(***************************************************************************)
(* The destination table                                                   *)
(***************************************************************************)
Absent == [exists |-> FALSE, cols |-> <<>>, rows |-> <<>>]

TableNames(t) == {t.cols[i].name : i \in DOMAIN t.cols}

\* The positions of the table's PRIMARY KEY column (none or one).
PkCols(t) == {i \in DOMAIN t.cols : t.cols[i].pk}

\* DROP TABLE IF EXISTS
DropTable(t) == Absent

\* _prepare_table: CREATE TABLE from the frame's schema unless the table exists;
\* the column named id is the PRIMARY KEY.
prepare_table(t, df) ==
    IF t.exists THEN t
    ELSE [exists |-> TRUE,
          cols |-> [i \in DOMAIN df.cols |->
                      [name |-> df.cols[i].name,
                       type |-> duck_type(df.cols[i].dtype),
                       pk |-> ("id" \in Columns(df) /\ df.cols[i].name = "id")]],
          rows |-> <<>>]

\* Mutant: no column is added.
add_missing_columns_none(t, df) == t

\* _add_missing_columns: ALTER TABLE ADD COLUMN for each frame column whose name
\* the table lacks, in frame order; the rows present get NULL in it.
add_missing_columns(t, df) ==
    LET existing_cols == TableNames(t)
        missing == SelectSeq(df.cols, LAMBDA c : c.name \notin existing_cols)
        added == [i \in DOMAIN missing |->
                    [name |-> missing[i].name,
                     type |-> duck_type(missing[i].dtype),
                     pk |-> FALSE]]
    IN [t EXCEPT !.cols = t.cols \o added,
                 !.rows = [r \in DOMAIN t.rows |->
                             t.rows[r] \o [i \in DOMAIN missing |-> VNull]]]

(***************************************************************************)
(* INSERT OR IGNORE INTO table SELECT * FROM incoming.                     *)
(* The select list is matched to the table's columns by position.  The     *)
(* statement is atomic: it inserts its rows or raises and inserts none.    *)
(* inner: what the engine does with rows of one statement that share a     *)
(* key absent from the table; releases of the engine differ (the first or  *)
(* the last of them is kept, or the statement is rejected).                *)
(***************************************************************************)
InnerChoices == {"keep_first", "keep_last", "raise"}

\* Mutant: INSERT OR REPLACE, the incoming row takes the place of the row that
\* holds its key.
InsertOrReplace(t, df, inner) ==
    LET pk == PkCols(t)
        incoming == [r \in DOMAIN df.rows |->
                       [i \in DOMAIN df.cols |-> Cast(df.rows[r][i], t.cols[i].type)]]
        p == CHOOSE i \in pk : TRUE
        keys == {incoming[r][p] : r \in DOMAIN incoming}
        stay == {r \in DOMAIN t.rows : t.rows[r][p] \notin keys}
        kept == {r \in DOMAIN incoming :
                    \A r2 \in DOMAIN incoming : r2 > r => incoming[r2][p] # incoming[r][p]}
    IN
    IF Len(df.cols) # Len(t.cols) \/ pk = {}
    THEN [tbl |-> t, outcome |-> "BinderException"]
    ELSE [tbl |-> [t EXCEPT !.rows = Pick(t.rows, stay) \o Pick(incoming, kept)],
          outcome |-> "ok"]

InsertOrIgnore(t, df, inner) ==
    LET pk == PkCols(t)
        castable == \A r \in DOMAIN df.rows : \A i \in DOMAIN df.cols :
                        CanCast(df.rows[r][i], t.cols[i].type)
        incoming == [r \in DOMAIN df.rows |->
                       [i \in DOMAIN df.cols |-> Cast(df.rows[r][i], t.cols[i].type)]]
        p == CHOOSE i \in pk : TRUE
        keys == {t.rows[r][p] : r \in DOMAIN t.rows}
        fresh == {r \in DOMAIN incoming : incoming[r][p] \notin keys}
        clash == \E r1, r2 \in fresh : r1 # r2 /\ incoming[r1][p] = incoming[r2][p]
        kept == IF inner = "keep_last"
                THEN {r \in fresh : \A r2 \in fresh : r2 > r => incoming[r2][p] # incoming[r][p]}
                ELSE {r \in fresh : \A r2 \in fresh : r2 < r => incoming[r2][p] # incoming[r][p]}
    IN
    IF Len(df.cols) # Len(t.cols)
    THEN [tbl |-> t, outcome |-> "BinderException"]       \* table has N columns but M values were supplied
    ELSE IF pk = {}
    THEN [tbl |-> t, outcome |-> "BinderException"]       \* no UNIQUE/PRIMARY KEY index for ON CONFLICT
    ELSE IF ~castable
    THEN [tbl |-> t, outcome |-> "ConversionException"]
    ELSE IF \E r \in DOMAIN incoming : incoming[r][p].k = "null"
    THEN [tbl |-> t, outcome |-> "ConstraintException"]   \* NOT NULL of the primary key
    ELSE IF clash /\ inner = "raise"
    THEN [tbl |-> t, outcome |-> "ConstraintException"]
    ELSE [tbl |-> [t EXCEPT !.rows = t.rows \o Pick(incoming, kept)], outcome |-> "ok"]

(***************************************************************************)
(* write_frame.  Every statement is committed as it is executed, so the    *)
(* table a raising call leaves is the table as of the statement that       *)
(* raised.                                                                 *)
(***************************************************************************)
\* Mutant: the mode is read and the table dropped before the frame is looked at.
write_frame_drop_first(t, df, mode, inner) ==
    IF mode \notin {"append", "overwrite"} THEN [tbl |-> t, outcome |-> "ValueError"]
    ELSE LET t1 == IF mode = "overwrite" THEN DropTable(t) ELSE t IN
         IF is_empty(df) THEN [tbl |-> t1, outcome |-> "noop"]
         ELSE InsertOrIgnore(add_missing_columns(prepare_table(t1, df), df), df, inner)

write_frame(t, df, mode, inner) ==
    IF is_empty(df) THEN [tbl |-> t, outcome |-> "noop"]
    ELSE IF mode \notin {"append", "overwrite"} THEN [tbl |-> t, outcome |-> "ValueError"]
    ELSE LET t1 == IF mode = "overwrite" THEN DropTable(t) ELSE t
             t2 == prepare_table(t1, df)
             t3 == add_missing_columns(t2, df)
         IN InsertOrIgnore(t3, df, inner)

Raised(outcome) == outcome \notin {"none", "noop", "ok"}

\* The calls: every frame in every mode, with what the engine does with rows
\* that share a key.
Calls == [df : Frames, mode : Modes, inner : InnerChoices]

\* The result of one call in the store state t.
Result(t, c) == write_frame(t, c.df, c.mode, c.inner)

\* The engine's choices that make a difference to the call of (df, mode) in the
\* store state t.
InnerOptions(t, df, mode) ==
    IF write_frame(t, df, mode, "raise") = write_frame(t, df, mode, "keep_first")
    THEN {"keep_first"} ELSE InnerChoices

Min(a, b) == IF a <= b THEN a ELSE b

NoPreview == [n |-> 0, outcome |-> "none", count |-> 0]

\* preview(n=n) on the store (f: the file exists, t: the table).
\* _get_connection opens the file with read_only=False, which creates it when
\* it is absent; SELECT * FROM table LIMIT n raises when the table is absent.
preview(f, t, n) ==
    [file |-> TRUE,
     tbl |-> t,
     outcome |-> IF t.exists THEN "ok" ELSE "CatalogException",
     rows |-> IF t.exists THEN SubSeq(t.rows, 1, Min(n, Len(t.rows))) ELSE <<>>]

(***************************************************************************)
(* The transformer (src/src/transform.py).                                 *)
(*                                                                         *)
(* A frame is its column names and its rows, each row a function from the  *)
(* column names to cells.  An instant is written as the number of hours it *)
(* lies before the now that _add_derived_columns reads.  The expressions   *)
(* are polars': a null operand gives null, a comparison with null is null  *)
(* and filter drops the row, and / on two Int64 columns is float division. *)
(***************************************************************************)
MaxRecs == 2          \* records passed to transform

ACTIVE_DAYS == 180

TNull == [k |-> "null", n |-> 0, d |-> 1]
TInt(n) == [k |-> "int", n |-> n, d |-> 1]
\* the string "%Y-%m-%dT%H:%M:%SZ" of the instant h hours before now
TIso(h) == [k |-> "iso", n |-> h, d |-> 1]
\* a string that is not in that format
TBadStr == [k |-> "badstr", n |-> 0, d |-> 1]
TDatetime(h) == [k |-> "datetime", n |-> h, d |-> 1]
\* the float n / d
TFloat(n, d) == [k |-> "float", n |-> n, d |-> d]
TInf == [k |-> "inf", n |-> 1, d |-> 0]
TNaN == [k |-> "nan", n |-> 0, d |-> 0]

\* The keys of a record that transform reads.
RecordKeys == <<"id", "pushed_at", "stargazers_count", "fork_count">>

\* The ages of the pushes, in hours: 100 days, 180 days and 5 hours, 200 days.
PushAges == {100 * 24, 180 * 24 + 5, 200 * 24}

PushedAts == {TNull, TBadStr} \cup {TIso(h) : h \in PushAges}

Records ==
    [id : {TInt(1), TInt(2)}, pushed_at : PushedAts,
     stargazers_count : {TInt(0), TInt(3)}, fork_count : {TInt(0), TInt(2)}]

RecordLists == UNION {[1..n -> Records] : n \in 0..MaxRecs}

NoFrame == [raised |-> "", columns |-> <<>>, rows |-> <<>>]

RaisedFrame(error) == [raised |-> error, columns |-> <<>>, rows |-> <<>>]

SeqSet(s) == {s[i] : i \in DOMAIN s}

\* pl.col(col).str.strptime(pl.Datetime, "%Y-%m-%dT%H:%M:%SZ", strict=False)
strptime(v) == IF v.k = "iso" THEN TDatetime(v.n) ELSE TNull

\* pl.col(col).cast(pl.Int64)
cast_int64(v) == IF v.k = "int" THEN v ELSE TNull

\* _to_polars: the empty frame for no records; else a frame of the records'
\* keys with the timestamp parsed and the numeric columns cast.  A column
\* whose values are all None has dtype Null, and strict builds reject .str on
\* it.
to_polars(df, strict) ==
    IF df = <<>> THEN NoFrame
    ELSE IF strict /\ \A i \in DOMAIN df : df[i].pushed_at = TNull
    THEN RaisedFrame("SchemaError")
    ELSE [raised |-> "",
          columns |-> RecordKeys,
          rows |-> [i \in DOMAIN df |->
                      [c \in SeqSet(RecordKeys) |->
                          IF c = "pushed_at" THEN strptime(df[i][c])
                          ELSE cast_int64(df[i][c])]]]

\* (now - pl.col("pushed_at")).dt.days: the whole days of the duration
dt_days(pushed_at) ==
    IF pushed_at.k = "datetime" THEN TInt(pushed_at.n \div 24) ELSE TNull

\* pl.col("stargazers_count") / pl.col("fork_count")
true_div(a, b) ==
    IF a.k # "int" \/ b.k # "int" THEN TNull
    ELSE IF b.n = 0 THEN (IF a.n = 0 THEN TNaN ELSE TInf)
    ELSE TFloat(a.n, b.n)

\* _add_derived_columns: with_columns resolves the columns it names against the
\* frame's schema, rows or no rows.
add_derived_columns(df) ==
    IF ~({"pushed_at", "stargazers_count", "fork_count"} \subseteq SeqSet(df.columns))
    THEN RaisedFrame("ColumnNotFoundError")
    ELSE [raised |-> "",
          columns |-> df.columns \o <<"days_since_last_push", "star_fork_ratio">>,
          rows |-> [i \in DOMAIN df.rows |->
                      [c \in SeqSet(df.columns) \cup {"days_since_last_push", "star_fork_ratio"} |->
                          IF c = "days_since_last_push" THEN dt_days(df.rows[i]["pushed_at"])
                          ELSE IF c = "star_fork_ratio"
                          THEN true_div(df.rows[i]["stargazers_count"], df.rows[i]["fork_count"])
                          ELSE df.rows[i][c]]]]

\* pl.col("days_since_last_push") <= ACTIVE_DAYS, as filter reads it: true, and
\* not null
is_active(row) ==
    row["days_since_last_push"].k = "int" /\ row["days_since_last_push"].n <= ACTIVE_DAYS

\* _filter_active_repos
filter_active_repos(df) ==
    IF "days_since_last_push" \notin SeqSet(df.columns)
    THEN RaisedFrame("ColumnNotFoundError")
    ELSE [df EXCEPT !.rows = SelectSeq(df.rows, is_active)]

TransformIdle ==
    /\ rows_in = <<>>
    /\ strict_str = FALSE
    /\ df_polars = NoFrame
    /\ tpc = "start"

(***************************************************************************)
(* The extractor (src/src/extract.py).                                     *)
(*                                                                         *)
(* A URL is a path (the organization's list, or one repository) and a      *)
(* query, a set of <<key, value>> pairs.  Repository names are numbers.    *)
(* The API's responses are GitHub's: a response that carries               *)
(* X-RateLimit-Remaining carries X-RateLimit-Reset too.                    *)
(***************************************************************************)
RATE_CUSHION == 10

HEADERS == "HEADERS"

Max(a, b) == IF a >= b THEN a ELSE b

\* params = {"per_page": per_page, "type": "public"}; the values are codes
ListParams == {<<"per_page", 100>>, <<"type", 1>>}

NoParams == [given |-> FALSE, q |-> {}]

OrgUrl == [kind |-> "orgs", name |-> 0, query |-> {}]

RepoUrl(n) == [kind |-> "repos", name |-> n, query |-> {}]

Keys(q) == {kv[1] : kv \in q}

\* The URL httpx requests for (url, params): with no params the URL as it is;
\* else the params merged into the URL's query, or, in the builds of httpx that
\* construct URL(url, params=params), in place of it.
WireUrl(url, params, merge) ==
    IF ~params.given THEN url
    ELSE IF merge
    THEN [url EXCEPT !.query = {kv \in url.query : kv[1] \notin Keys(params.q)} \cup params.q]
    ELSE [url EXCEPT !.query = params.q]

(***************************************************************************)
(* The API                                                                 *)
(***************************************************************************)
\* The names on page p of the organization's list.
PageItems(p) == IF p = 1 THEN <<1, 2>> ELSE <<p + 1>>

\* The page a list request asks for: its page parameter, else the first.
ServedPage(u) ==
    IF "page" \in Keys(u.query) THEN (CHOOSE kv \in u.query : kv[1] = "page")[2] ELSE 1

PageUrl(u, p) == [u EXCEPT !.query = {kv \in u.query : kv[1] # "page"} \cup {<<"page", p>>}]

\* The Link header of page p of k, as a sequence of links (empty: no header).
LinkHeader(u, p, k) ==
    IF k = 1 THEN <<>>
    ELSE (IF p > 1 THEN <<[url |-> PageUrl(u, p - 1), rel |-> "prev"]>> ELSE <<>>)
         \o (IF p < k THEN <<[url |-> PageUrl(u, p + 1), rel |-> "next"],
                             [url |-> PageUrl(u, k), rel |-> "last"]>> ELSE <<>>)
         \o (IF p > 1 THEN <<[url |-> PageUrl(u, 1), rel |-> "first"]>> ELSE <<>>)

Response(status, remaining, reset, items, link) ==
    [status |-> status, rl_remaining |-> remaining, reset |-> reset,
     items |-> items, link |-> link]

\* The successful response to the request of u.
OkResponse(u, k) ==
    IF u.kind = "orgs"
    THEN LET p == IF ServedPage(u) \in 1..k THEN ServedPage(u) ELSE k
         IN Response(200, TRUE, 0, PageItems(p), LinkHeader(u, p, k))
    ELSE Response(200, TRUE, 0, <<u.name>>, <<>>)

\* The reset epochs of a rate-limited response, relative to the second it is sent in.
ResetOffsets == {-3, 5}

RateLimitResponses(now_s) ==
    {Response(403, TRUE, now_s + off, <<>>, <<>>) : off \in ResetOffsets}

\* Failures that are not rate limits: a renamed repository, a forbidden one
\* (answered without the rate-limit header), a missing one, a secondary rate
\* limit, a server error.
ErrorResponses ==
    {Response(301, TRUE, 0, <<>>, <<>>), Response(403, FALSE, 0, <<>>, <<>>),
     Response(404, TRUE, 0, <<>>, <<>>), Response(429, TRUE, 0, <<>>, <<>>),
     Response(500, FALSE, 0, <<>>, <<>>)}

ServerResponses(u, k, now_s) ==
    {OkResponse(u, k)} \cup RateLimitResponses(now_s) \cup ErrorResponses

(***************************************************************************)
(* _request                                                                *)
(***************************************************************************)
\* int(time.time())
IntTime(t) == t \div TicksPerSec

\* Mutant: the cushion is left out.
wait_time_no_cushion(resp, t) == Max(resp.reset - IntTime(t), 0)

\* max(reset_time - int(time.time()), 0) + RATE_CUSHION, in seconds
wait_time(resp, t) == Max(resp.reset - IntTime(t), 0) + RATE_CUSHION

\* Mutant: a 429 counts as a rate limit too.
is_rate_limited_or_429(resp) == resp.status \in {403, 429} /\ resp.rl_remaining

\* response.status_code == 403 and "X-RateLimit-Remaining" in response.headers
is_rate_limited(resp) == resp.status = 403 /\ resp.rl_remaining

\* Mutant: only a server error raises.
raises_for_status_5xx(resp) == resp.status >= 500

\* response.raise_for_status() raises unless the status is 2xx
raises_for_status(resp) == ~(resp.status >= 200 /\ resp.status <= 299)

\* Mutant: every failed response is waited out and retried.
request_outcome_retry_all(resp) ==
    IF resp.status \notin 200..299 THEN "retry" ELSE "return"

\* What one turn of the loop of _request does with the response.
request_outcome(resp) ==
    IF is_rate_limited(resp) THEN "retry"
    ELSE IF raises_for_status(resp) THEN "raise"
    ELSE "return"

(***************************************************************************)
(* _paginate                                                               *)
(***************************************************************************)
NoUrl == [kind |-> "none", name |-> 0, query |-> {}]

\* The first link with rel="next": its URL, else NoUrl.
next_link(links) ==
    LET I == {i \in DOMAIN links : links[i].rel = "next"} IN
    IF I = {} THEN NoUrl ELSE links[CHOOSE i \in I : \A j \in I : i <= j].url

(***************************************************************************)
(* get_repo: the projection of the repository's data                       *)
(***************************************************************************)
\* data.get(k) for each field: None (0) where the body has no such field.
get_repo_record(resp) == [full_name |-> IF resp.items = <<>> THEN 0 ELSE resp.items[1]]

NoReq == [url |-> NoUrl, params |-> NoParams, headers |-> HEADERS]

NoResult == [returned |-> FALSE, rows |-> <<>>]

LogEntry(resp) ==
    [t |-> clock, call |-> calls, req |-> req,
     sent |-> WireUrl(req.url, req.params, merges),
     status |-> resp.status, rl_remaining |-> resp.rl_remaining, reset |-> resp.reset]

RepoLists == {<<>>, <<1>>, <<1, 2>>, <<2, 1>>}

Configs == [org : BOOLEAN, repos : RepoLists]

ExtractIdle ==
    /\ cfg = [org |-> FALSE, repos |-> <<>>]
    /\ merges = TRUE
    /\ pages = 1
    /\ pc = "start"
    /\ req = NoReq
    /\ phase = "idle"
    /\ wake = 0
    /\ clock = 0
    /\ log = <<>>
    /\ calls = 0
    /\ retries = 0
    /\ repos = <<>>
    /\ repo_list = <<>>
    /\ records = <<>>
    /\ result = NoResult

LoadIdle ==
    /\ tbl = Absent
    /\ last = [mode |-> "append", outcome |-> "none"]
    /\ seen = {}
    /\ file = FALSE
    /\ shown = NoPreview

InitExtract ==
    /\ LoadIdle
    /\ TransformIdle
    /\ cfg \in Configs
    /\ merges \in BOOLEAN
    /\ pages \in 1..MaxPages
    /\ pc = "start"
    /\ req = NoReq
    /\ phase = "idle"
    /\ wake = 0
    /\ clock \in 0..(TicksPerSec - 1)
    /\ log = <<>>
    /\ calls = 0
    /\ retries = 0
    /\ repos = <<>>
    /\ repo_list = <<>>
    /\ records = <<>>
    /\ result = NoResult

\* Mutant: the names are fetched from the end of the list.
StartFetch_backwards(names, done) ==
    /\ repo_list' = names
    /\ IF Len(names) > Len(done)
       THEN /\ req' = [url |-> RepoUrl(names[Len(names) - Len(done)]), params |-> NoParams,
                       headers |-> HEADERS]
            /\ phase' = "send"
            /\ calls' = calls + 1
       ELSE /\ req' = NoReq
            /\ phase' = "idle"
            /\ calls' = calls

\* The _request call that fetch_all makes next once the list is names: for the
\* first name left, or none.
StartFetch(names, done) ==
    /\ repo_list' = names
    /\ IF Len(names) > Len(done)
       THEN /\ req' = [url |-> RepoUrl(names[Len(done) + 1]), params |-> NoParams,
                       headers |-> HEADERS]
            /\ phase' = "send"
            /\ calls' = calls + 1
       ELSE /\ req' = NoReq
            /\ phase' = "idle"
            /\ calls' = calls

\* fetch_all up to its first request: the list of the organization when
\* cfg.get("org"), else cfg["repos"].
Start ==
    /\ pc = "start"
    /\ IF cfg.org
       THEN /\ pc' = "list"
            /\ req' = [url |-> OrgUrl, params |-> [given |-> TRUE, q |-> ListParams],
                       headers |-> HEADERS]
            /\ phase' = "send"
            /\ calls' = calls + 1
            /\ repo_list' = repo_list
       ELSE /\ pc' = "fetch"
            /\ StartFetch(cfg.repos, <<>>)
    /\ UNCHANGED <<cfg, merges, pages, wake, clock, log, retries, repos, records, result>>
    /\ UNCHANGED <<loadVars, transformVars>>

Sending == pc \in {"list", "fetch"} /\ phase \in {"send", "resend"}

\* httpx.get answered with a rate-limited response: _request sleeps.
SendRetry ==
    /\ Sending
    /\ retries < MaxRetries
    /\ \E resp \in ServerResponses(WireUrl(req.url, req.params, merges), pages, IntTime(clock)) :
        /\ request_outcome(resp) = "retry"
        /\ log' = Append(log, LogEntry(resp))
        /\ wake' = clock + wait_time(resp, clock) * TicksPerSec
    /\ phase' = "sleep"
    /\ retries' = retries + 1
    /\ UNCHANGED <<cfg, merges, pages, pc, req, clock, calls, repos, repo_list, records, result>>
    /\ UNCHANGED <<loadVars, transformVars>>

\* time.sleep(wait_time) returns; the loop continues with the same arguments.
Wake ==
    /\ phase = "sleep"
    /\ clock' = wake
    /\ phase' = "resend"
    /\ UNCHANGED <<cfg, merges, pages, pc, req, wake, log, calls, retries, repos, repo_list,
                   records, result>>
    /\ UNCHANGED <<loadVars, transformVars>>

\* httpx.get answered with a failure: raise_for_status raises, nothing catches
\* it, fetch_all is left without a return value.
SendRaise ==
    /\ Sending
    /\ \E resp \in ServerResponses(WireUrl(req.url, req.params, merges), pages, IntTime(clock)) :
        /\ request_outcome(resp) = "raise"
        /\ log' = Append(log, LogEntry(resp))
    /\ pc' = "raised"
    /\ phase' = "idle"
    /\ UNCHANGED <<cfg, merges, pages, req, wake, clock, calls, retries, repos, repo_list,
                   records, result>>
    /\ UNCHANGED <<loadVars, transformVars>>

\* _paginate got a page: list_org_repos extends repos with its names; _paginate
\* follows the next link with the same params, or ends and fetch_all goes on to
\* the repositories.
SendPage ==
    /\ Sending
    /\ pc = "list"
    /\ Len(log) < MaxRequests
    /\ \E resp \in ServerResponses(WireUrl(req.url, req.params, merges), pages, IntTime(clock)) :
        /\ request_outcome(resp) = "return"
        /\ log' = Append(log, LogEntry(resp))
        /\ repos' = repos \o resp.items
        /\ IF next_link(resp.link) = NoUrl
           THEN /\ pc' = "fetch"
                /\ StartFetch(repos \o resp.items, <<>>)
           ELSE /\ pc' = "list"
                /\ req' = [req EXCEPT !.url = next_link(resp.link)]
                /\ phase' = "send"
                /\ calls' = calls + 1
                /\ repo_list' = repo_list
    /\ UNCHANGED <<cfg, merges, pages, wake, clock, retries, records, result>>
    /\ UNCHANGED <<loadVars, transformVars>>

\* get_repo got the repository: its record joins the list being built.
SendRepo ==
    /\ Sending
    /\ pc = "fetch"
    /\ \E resp \in ServerResponses(WireUrl(req.url, req.params, merges), pages, IntTime(clock)) :
        /\ request_outcome(resp) = "return"
        /\ log' = Append(log, LogEntry(resp))
        /\ records' = Append(records, get_repo_record(resp))
        /\ StartFetch(repo_list, Append(records, get_repo_record(resp)))
    /\ UNCHANGED <<cfg, merges, pages, pc, wake, clock, retries, repos, result>>
    /\ UNCHANGED <<loadVars, transformVars>>

\* Every name is fetched: fetch_all returns the records.
Return ==
    /\ pc = "fetch"
    /\ phase = "idle"
    /\ pc' = "returned"
    /\ result' = [returned |-> TRUE, rows |-> records]
    /\ UNCHANGED <<cfg, merges, pages, req, phase, wake, clock, log, calls, retries, repos,
                   repo_list, records>>
    /\ UNCHANGED <<loadVars, transformVars>>

NextExtract == Start \/ SendRetry \/ Wake \/ SendRaise \/ SendPage \/ SendRepo \/ Return

SpecExtract == InitExtract /\ [][NextExtract]_vars

\* The process runs on: a sleep ends, a request that can be sent is sent.
SpecExtractFair == SpecExtract /\ WF_vars(NextExtract)

(***************************************************************************)
(* The loader's runs                                                       *)
(***************************************************************************)
InitLoad == LoadIdle /\ ExtractIdle /\ TransformIdle

\* One call of write_frame(df, mode=mode).
WriteFrame ==
    \E df \in Frames, mode \in Modes :
      \E c \in [df : {df}, mode : {mode}, inner : InnerOptions(tbl, df, mode)] :
        LET res == Result(tbl, c) IN
        /\ tbl' = res.tbl
        /\ last' = [mode |-> c.mode, outcome |-> res.outcome]
        /\ seen' = IF res.outcome \in {"noop", "ValueError"} THEN seen
                   ELSE IF c.mode = "overwrite" THEN Columns(c.df)
                   ELSE seen \cup Columns(c.df)
        /\ file' = (file \/ res.outcome \notin {"noop", "ValueError"})
        /\ UNCHANGED <<shown, extractVars, transformVars>>

NextLoad == WriteFrame

SpecLoad == InitLoad /\ [][NextLoad]_vars

\* One call of preview(n=n), with n below the number of rows a frame can bring,
\* so that LIMIT n has rows to cut.
Preview ==
    \E n \in 1..(MaxRows - 1) :
        LET res == preview(file, tbl, n) IN
        /\ file' = res.file
        /\ tbl' = res.tbl
        /\ shown' = [n |-> n, outcome |-> res.outcome, count |-> Len(res.rows)]
        /\ UNCHANGED <<last, seen, extractVars, transformVars>>

\* The store under calls of write_frame and preview, in any order.
NextStore == WriteFrame \/ Preview

SpecStore == InitLoad /\ [][NextStore]_vars

(***************************************************************************)
(* The transformer's runs: transform(rows_in), stage by stage.             *)
(***************************************************************************)
InitTransform ==
    /\ LoadIdle
    /\ ExtractIdle
    /\ rows_in \in RecordLists
    /\ strict_str \in BOOLEAN
    /\ df_polars = NoFrame
    /\ tpc = "start"

\* The stage's result becomes df_polars, or its error leaves transform.
Stage(res, next) ==
    /\ df_polars' = res
    /\ tpc' = IF res.raised # "" THEN "raised" ELSE next
    /\ UNCHANGED <<rows_in, strict_str, loadVars, extractVars>>

\* df_polars = _to_polars(df)
ToPolars == tpc = "start" /\ Stage(to_polars(rows_in, strict_str), "typed")

\* df_polars = _add_derived_columns(df_polars)
AddDerivedColumns == tpc = "typed" /\ Stage(add_derived_columns(df_polars), "derived")

\* df_polars = _filter_active_repos(df_polars); return df_polars
FilterActiveRepos == tpc = "derived" /\ Stage(filter_active_repos(df_polars), "returned")

NextTransform == ToPolars \/ AddDerivedColumns \/ FilterActiveRepos

SpecTransform == InitTransform /\ [][NextTransform]_vars

(***************************************************************************)
(* Properties of the loader                                                *)
(***************************************************************************)
\* The calls that reach the store: a frame with rows, a valid mode.
WriteCalls == {c \in Calls : ~is_empty(c.df) /\ c.mode \in {"append", "overwrite"}}

\* The position of the column named name in the table (0: none).
ColPos(t, name) ==
    IF name \in TableNames(t) THEN CHOOSE i \in DOMAIN t.cols : t.cols[i].name = name ELSE 0

\* The values the table's rows hold in the column named id.
TableIds(t) ==
    IF ColPos(t, "id") = 0 THEN {} ELSE {t.rows[r][ColPos(t, "id")] : r \in DOMAIN t.rows}

\* The values of the frame's id column, as the store's id column would hold them.
FrameIds(df, t) ==
    LET c == CHOOSE i \in DOMAIN df.cols : df.cols[i].name = "id" IN
    IF "id" \notin Columns(df) \/ ColPos(t, "id") = 0 THEN {}
    ELSE {Cast(df.rows[r][c], t.cols[ColPos(t, "id")].type) : r \in DOMAIN df.rows}

\* C1 (as claimed): in every state of the store and for every non-empty frame, a
\* second write_frame of the same frame raises no error and leaves the table as
\* the first call left it.  Stated for the frames that carry the id column, on
\* an engine that keeps the first of the rows that share a key.
C1_WriteTwiceIsWriteOnce ==
    \A c \in WriteCalls :
        "id" \in Columns(c.df) /\ c.inner = "keep_first" =>
            LET once == Result(tbl, c)
                twice == Result(once.tbl, c)
            IN ~Raised(twice.outcome) /\ twice.tbl = once.tbl

\* C2 (as claimed): the table never holds two rows with the same id, and an
\* append of a frame that carries an id already in the table does not raise.
C2_UniqueIdsSilentDrop ==
    /\ \A r1, r2 \in DOMAIN tbl.rows :
          ColPos(tbl, "id") # 0 /\ r1 # r2 =>
              tbl.rows[r1][ColPos(tbl, "id")] # tbl.rows[r2][ColPos(tbl, "id")]
    /\ \A c \in WriteCalls :
          c.mode = "append" /\ Len(c.df.rows) = 1
             /\ FrameIds(c.df, tbl) \cap TableIds(tbl) # {} =>
              ~Raised(Result(tbl, c).outcome)

\* C3 (as claimed): a write_frame call that raises leaves the table (existence,
\* columns, rows) exactly as it was before the call.
C3_RaiseLeavesTable == [][Raised(last'.outcome) => tbl' = tbl]_vars

\* C4 (as claimed): over any write_frame call the table's column set only grows.
C4_ColumnsOnlyGrow == [][TableNames(tbl) \subseteq TableNames(tbl')]_vars

\* C4 (amended): a write_frame call in a mode other than overwrite never removes
\* a column, and the table's column set is the union of the column sets of the
\* non-empty frames written since the table was last dropped by an overwrite.
C4_ColumnsAreUnionSinceDrop ==
    [][/\ last'.mode # "overwrite" => TableNames(tbl) \subseteq TableNames(tbl')
       /\ tbl'.exists => TableNames(tbl') = seen']_vars

\* C4 witness: the table was created by one frame and has gained the column of
\* another frame by an append.
C4_Witness ==
    /\ last.mode = "append" /\ last.outcome = "ok"
    /\ TableNames(tbl) = {"id", "a"}
    /\ \E r \in DOMAIN tbl.rows : tbl.rows[r][ColPos(tbl, "a")] = VNull

\* The rows of t are the first rows of u, with their values in t's columns.
RowsKept(t, u) ==
    /\ Len(u.rows) >= Len(t.rows)
    /\ Len(u.cols) >= Len(t.cols)
    /\ \A i \in DOMAIN t.cols : u.cols[i].name = t.cols[i].name
    /\ \A r \in DOMAIN t.rows : \A i \in DOMAIN t.cols : u.rows[r][i] = t.rows[r][i]

\* The rows u holds beyond those of t have ids that t did not hold.
NewRowsHaveNewIds(t, u) ==
    \A r \in (Len(t.rows) + 1)..Len(u.rows) :
        ColPos(u, "id") # 0 => u.rows[r][ColPos(u, "id")] \notin TableIds(t)

\* C5 (as claimed): every write_frame call leaves each row of the table present
\* and unchanged, and adds only rows with new ids.
C5_NoCallTouchesRows == [][RowsKept(tbl, tbl') /\ NewRowsHaveNewIds(tbl, tbl')]_vars

\* C5 (amended): every write_frame call in a mode other than overwrite leaves
\* each row of the table present with its values in the columns it had, and adds
\* only rows whose id the table did not hold.
C5_AppendKeepsRows ==
    [][last'.mode # "overwrite" => RowsKept(tbl, tbl') /\ NewRowsHaveNewIds(tbl, tbl')]_vars

\* C5 witness: after a successful append the table holds two rows; the earlier
\* row, written before column a existed, still has NULL there and the later row
\* carries a value.
C5_Witness ==
    /\ last.mode = "append" /\ last.outcome = "ok"
    /\ Len(tbl.rows) = 2 /\ TableNames(tbl) = {"id", "a"}
    /\ tbl.rows[1][ColPos(tbl, "a")] = VNull
    /\ tbl.rows[2][ColPos(tbl, "a")] # VNull

\* The frames without rows: every column sequence, and pl.DataFrame() itself.
EmptyFrames == {[cols |-> cs, rows |-> <<>>] : cs \in ColSeqs}

\* C14: write_frame with a frame without rows returns at once in every mode,
\* "overwrite" and a mode that is no mode included; the call leaves the store
\* file, the table, its columns and its rows as they were.
C14_EmptyFrameIsNoOp ==
    /\ [](\A df \in EmptyFrames, mode \in Modes, inner \in InnerChoices :
            write_frame(tbl, df, mode, inner) = [tbl |-> tbl, outcome |-> "noop"])
    /\ [][last'.outcome = "noop" => tbl' = tbl /\ file' = file]_vars

\* C14 witness: an overwrite with an empty frame has returned and the table
\* still holds a row.
C14_Witness ==
    /\ last.mode = "overwrite" /\ last.outcome = "noop"
    /\ tbl.exists /\ tbl.rows # <<>> /\ file

\* Row q of the frame as a table with the columns of t stores it, position by
\* position.
StoredRow(df, q, t) == [i \in DOMAIN df.cols |-> Cast(df.rows[q][i], t.cols[i].type)]

\* The names of a sequence of columns, in order.
NamesOf(cols) == [i \in DOMAIN cols |-> cols[i].name]

\* The table t holds the rows of the frame df and nothing else: its columns are
\* the frame's, each of its rows is a row of the frame, and each row of the
\* frame is there (for a frame with ids: a row with its id, once).
HoldsExactly(t, df) ==
    /\ t.exists
    /\ NamesOf(t.cols) = NamesOf(df.cols)
    /\ \A r \in DOMAIN t.rows : \E q \in DOMAIN df.rows : t.rows[r] = StoredRow(df, q, t)
    /\ \A q \in DOMAIN df.rows : \E r \in DOMAIN t.rows :
          IF ColPos(t, "id") = 0 THEN t.rows[r] = StoredRow(df, q, t)
          ELSE t.rows[r][ColPos(t, "id")] = StoredRow(df, q, t)[ColPos(t, "id")]
    /\ \A r1, r2 \in DOMAIN t.rows :
          ColPos(t, "id") # 0 /\ r1 # r2 =>
              t.rows[r1][ColPos(t, "id")] # t.rows[r2][ColPos(t, "id")]

\* C15 (as claimed): whatever the table holds, write_frame of a non-empty frame
\* in mode overwrite leaves a table whose columns are the frame's columns and
\* whose rows are the frame's rows, one per distinct id, and nothing else.
\* Values are compared as the column's type stores them.
C15_OverwriteReplacesTable ==
    \A c \in WriteCalls :
        c.mode = "overwrite" => HoldsExactly(Result(tbl, c).tbl, c.df)

\* C16 (as claimed): a preview call, whether it returns or raises, leaves the
\* store as it was: the file is not created, the table is not created, altered or
\* dropped, no row changes; and it returns at most n rows.
C16_PreviewIsReadOnly ==
    [][shown' # shown => file' = file /\ tbl' = tbl /\ shown'.count <= shown'.n]_vars

\* The SQL type claimed for a frame column of the Arrow type.
ClaimedSqlType(arrowType) ==
    CASE arrowType = "int64" -> "BIGINT"
      [] arrowType = "double" -> "DOUBLE"
      [] arrowType = "bool" -> "BOOLEAN"
      [] arrowType \in {"timestamp[us]", "timestamp[ns]"} -> "TIMESTAMP"
      [] OTHER -> "VARCHAR"

\* The Arrow type of the frame's column named name.
FrameType(df, name) == df.cols[CHOOSE i \in DOMAIN df.cols : df.cols[i].name = name].dtype

\* Over the call c on table t: a column the call introduces (by CREATE TABLE or
\* by ALTER TABLE) has the SQL type that introduce gives for the frame column's
\* type, and a column the table had keeps its type.
TypesOver(t, c, introduce(_)) ==
    LET u == Result(t, c).tbl
        had == IF c.mode = "overwrite" THEN {} ELSE TableNames(t)
    IN \A i \in DOMAIN u.cols :
          IF u.cols[i].name \in had
          THEN u.cols[i].type = t.cols[ColPos(t, u.cols[i].name)].type
          ELSE u.cols[i].type = introduce(FrameType(c.df, u.cols[i].name))

\* C18 (as claimed): a column gets its SQL type when it is introduced, integer
\* to BIGINT, float to DOUBLE, boolean to BOOLEAN, timestamp to TIMESTAMP, else
\* VARCHAR, by table creation and by schema evolution alike; a later append
\* leaves the type of an existing column, whatever type the frame has.
C18_TypesBySemanticType == \A c \in WriteCalls : TypesOver(tbl, c, ClaimedSqlType)

\* The position of the column named name in the frame (0: none).
FramePos(df, name) ==
    IF name \in Columns(df) THEN CHOOSE i \in DOMAIN df.cols : df.cols[i].name = name ELSE 0

\* The table row holds, in every column of the table u, what row q of the frame
\* has in its column of that name, as the column's type stores it, and NULL in
\* the columns the frame lacks.
AlignedRow(row, u, df, q) ==
    \A i \in DOMAIN u.cols :
        row[i] = IF FramePos(df, u.cols[i].name) = 0 THEN VNull
                 ELSE Cast(df.rows[q][FramePos(df, u.cols[i].name)], u.cols[i].type)

\* C19 (as claimed): for every append of a frame onto an existing table, each
\* row the call inserts holds under every table column the frame row's value
\* under the column of that name, and NULL where the frame has no such column.
C19_ValuesUnderTheirNames ==
    \A c \in WriteCalls :
        c.mode = "append" /\ tbl.exists =>
            LET u == Result(tbl, c).tbl IN
            \A r \in (Len(tbl.rows) + 1)..Len(u.rows) :
                \E q \in DOMAIN c.df.rows : AlignedRow(u.rows[r], u, c.df, q)

(***************************************************************************)
(* Properties of the extractor                                             *)
(***************************************************************************)
\* The logged response is a rate-limit response: 403 with X-RateLimit-Remaining.
RateLimitedEntry(e) == e.status = 403 /\ e.rl_remaining

\* The time at which max(reset - now, 0) + RATE_CUSHION seconds have passed
\* since the response of entry e, in ticks.
DueAfter(e) == e.t + Max(e.reset * TicksPerSec - e.t, 0) + RATE_CUSHION * TicksPerSec

\* The request after entry i, if any, belongs to the same _request call; at the
\* end of the log, the call is still in its loop.
Retried(i) ==
    IF i < Len(log) THEN log[i + 1].call = log[i].call
    ELSE phase \in {"sleep", "resend"} /\ calls = log[i].call

\* C6: after a rate-limited response no request is sent before
\* max(reset - now, 0) + 10 seconds have passed (so none within 15 seconds when
\* reset = now + 5, none within 10 seconds when reset is in the past), and the
\* sleep is less than a second longer than that.
C6_BackoffTiming ==
    \A i \in DOMAIN log :
        RateLimitedEntry(log[i]) =>
            /\ i < Len(log) => log[i + 1].t >= DueAfter(log[i])
            /\ i < Len(log) => log[i + 1].t >= log[i].t + RATE_CUSHION * TicksPerSec
            /\ i = Len(log) /\ phase = "sleep" =>
                   /\ clock = log[i].t
                   /\ wake >= DueAfter(log[i])
                   /\ wake < DueAfter(log[i]) + TicksPerSec
            /\ i = Len(log) /\ phase # "sleep" => clock >= DueAfter(log[i])

\* C6 witness: a rate-limited response with reset = now + 5, and the next
\* request 15 seconds or more after it; another with reset in the past.
C6_Witness ==
    /\ Len(log) >= 3
    /\ RateLimitedEntry(log[1]) /\ log[1].reset = IntTime(log[1].t) + 5
    /\ log[2].t - log[1].t >= 15 * TicksPerSec
    /\ RateLimitedEntry(log[2]) /\ log[2].reset < IntTime(log[2].t)
    /\ log[3].t - log[2].t = RATE_CUSHION * TicksPerSec

C7_Loop ==
    \A i \in DOMAIN log :
        /\ RateLimitedEntry(log[i]) =>
              /\ Retried(i)
              /\ i < Len(log) => log[i + 1].req = log[i].req /\ log[i + 1].sent = log[i].sent
              /\ i = Len(log) => req = log[i].req
        /\ ~RateLimitedEntry(log[i]) =>
              /\ ~Retried(i)
              /\ log[i].status \in 200..299 => ~(pc = "raised" /\ i = Len(log))
              /\ log[i].status \notin 200..299 => pc = "raised" /\ i = Len(log)

\* C7: a rate-limited response is followed by the same request (URL, params,
\* headers) of the same _request call, whatever the number of attempts before
\* it; the first response that is not rate-limited ends the call, by a return
\* (2xx) or by raising; and a call that is in its retry loop ends (the next call
\* starts, or fetch_all is left) once responses that are not rate-limited arrive.
C7_RetryLoop ==
    /\ []C7_Loop
    /\ (phase \in {"sleep", "resend"}) ~> (phase \in {"send", "idle"})

\* C7 witness: a call answered rate-limited as often as the model lets the
\* server, and then successfully.
C7_Witness ==
    /\ Len(log) = MaxRetries + 1
    /\ \A i \in 1..MaxRetries : RateLimitedEntry(log[i])
    /\ log[MaxRetries + 1].status = 200
    /\ log[MaxRetries + 1].call = log[1].call

\* The pages of the organization's list served so far, in the order served.
RECURSIVE ServedPages(_)
ServedPages(l) ==
    IF l = <<>> THEN <<>>
    ELSE ServedPages(SubSeq(l, 1, Len(l) - 1)) \o
         (IF l[Len(l)].sent.kind = "orgs" /\ l[Len(l)].status = 200
          THEN <<ServedPage(l[Len(l)].sent)>> ELSE <<>>)

\* The names of pages 1..n, in page order.
RECURSIVE NamesUpTo(_)
NamesUpTo(n) == IF n = 0 THEN <<>> ELSE NamesUpTo(n - 1) \o PageItems(n)

\* C8 (as claimed): list_org_repos gets page 1, 2, ... of the list, each once and
\* in order, gathers their names in page order, and ends after the last page with
\* the names of all pages.
C8_PagesOnceInOrder ==
    cfg.org =>
        LET served == ServedPages(log) IN
        /\ Len(served) <= pages
        /\ \A i \in DOMAIN served : served[i] = i
        /\ repos = NamesUpTo(Len(served))
        /\ pc \in {"fetch", "returned"} => Len(served) = pages /\ repo_list = NamesUpTo(pages)

\* A failure that is not a rate limit.
ErrorEntry(e) == ~RateLimitedEntry(e) /\ e.status \notin 200..299

\* C9: a failed response that is not rate-limited is the last request of the
\* run: it is not retried, fetch_all is left by the exception, and nothing is
\* returned, whatever was fetched before.
C9_ErrorAbortsRun ==
    /\ \A i \in DOMAIN log :
          ErrorEntry(log[i]) => i = Len(log) /\ pc = "raised" /\ phase = "idle"
    /\ pc = "raised" => result = NoResult /\ ErrorEntry(log[Len(log)])
    /\ result.returned => pc = "returned" /\ \A i \in DOMAIN log : ~ErrorEntry(log[i])

\* C9 witness: a 404 for the second repository, after the first was fetched.
C9_Witness ==
    /\ pc = "raised"
    /\ Len(records) = 1
    /\ log[Len(log)].status = 404
    /\ result = NoResult

\* C10 (as claimed): the responses that are retried are those with status 429
\* and the rate-limited 403.
C10_Retries429And403 ==
    \A i \in DOMAIN log :
        Retried(i) <=> (log[i].status = 429 \/ RateLimitedEntry(log[i]))

\* C10 (amended): the responses that are retried are exactly the 403 responses
\* that carry X-RateLimit-Remaining; a 429 is not retried, it raises at once
\* like every other failure.
C10_RetriesOnly403 ==
    /\ \A i \in DOMAIN log : Retried(i) <=> RateLimitedEntry(log[i])
    /\ \A i \in DOMAIN log : log[i].status = 429 => pc = "raised" /\ i = Len(log)

\* C10 witness: a rate-limited 403 was retried, and the 429 that answered the
\* retry ended the run.
C10_Witness ==
    /\ Len(log) = 2
    /\ RateLimitedEntry(log[1]) /\ log[2].call = log[1].call
    /\ log[2].status = 429
    /\ pc = "raised"

\* The logged request is one of the listing, or one for a repository.
ListEntry(e) == e.req.url.kind = "orgs"
RepoEntry(e) == e.req.url.kind = "repos"

\* The number of repository requests among the first n of the log that got
\* their repository.
RECURSIVE Fetched(_)
Fetched(n) ==
    IF n = 0 THEN 0
    ELSE Fetched(n - 1) + (IF RepoEntry(log[n]) /\ log[n].status = 200 THEN 1 ELSE 0)

\* C17: fetch_all takes its list from list_org_repos when cfg has an org, else
\* from cfg's repos, never from both; every request of the listing comes before
\* the first request for a repository; the repositories are requested one at a
\* time in list order, the next only when the one before has answered; and what
\* fetch_all returns is one record per listed name, in list order.
C17_ListThenSerialFetch ==
    /\ ~cfg.org => \A i \in DOMAIN log : ~ListEntry(log[i])
    /\ pc \in {"fetch", "returned"} => repo_list = (IF cfg.org THEN repos ELSE cfg.repos)
    /\ \A i, j \in DOMAIN log : ListEntry(log[j]) /\ RepoEntry(log[i]) => j < i
    /\ \A i \in DOMAIN log :
          RepoEntry(log[i]) =>
              /\ pc # "list"
              /\ Fetched(i - 1) < Len(repo_list)
              /\ log[i].req.url = RepoUrl(repo_list[Fetched(i - 1) + 1])
    /\ \A i \in DOMAIN log : i > 1 => log[i].call \in {log[i - 1].call, log[i - 1].call + 1}
    /\ result.returned =>
          /\ Len(result.rows) = Len(repo_list)
          /\ \A i \in DOMAIN repo_list : result.rows[i].full_name = repo_list[i]

\* C17 witness: the organization's list of two pages was gathered and its three
\* repositories fetched; fetch_all has returned their records.
C17_Witness ==
    /\ cfg.org /\ pages = 2
    /\ result.returned /\ Len(result.rows) = 3
    /\ \E i \in DOMAIN log : RateLimitedEntry(log[i]) /\ RepoEntry(log[i])

(***************************************************************************)
(* Properties of the transformer                                           *)
(***************************************************************************)
\* The record's push lies a whole number of days back that is at most
\* ACTIVE_DAYS: its pushed_at is a timestamp in the format, not null.
InputActive(rec) == rec.pushed_at.k = "iso" /\ rec.pushed_at.n \div 24 <= ACTIVE_DAYS

\* The frame row is the input record: its id, its counters, its push instant.
SameRow(row, rec) ==
    /\ row["id"] = rec.id
    /\ row["stargazers_count"] = rec.stargazers_count
    /\ row["fork_count"] = rec.fork_count
    /\ row["pushed_at"] = TDatetime(rec.pushed_at.n)

\* The rows of the frame are the input records at the indices I, in order.
RowsAre(df, recs, I) ==
    LET kept == Pick(recs, I) IN
    /\ Len(df.rows) = Len(kept)
    /\ \A i \in DOMAIN kept : SameRow(df.rows[i], kept[i])

\* C11 (as claimed): for every list of input records transform returns, and
\* what it returns is exactly the input rows whose day count is not null and at
\* most ACTIVE_DAYS (180 days and 5 hours: kept; 200 days: dropped; 100 days:
\* kept; null or unparsable pushed_at: dropped), none added, none twice.
C11_ActivityFilter ==
    /\ tpc # "raised"
    /\ tpc = "returned" =>
          RowsAre(df_polars, rows_in, {i \in DOMAIN rows_in : InputActive(rows_in[i])})

\* C12 (as claimed): in the frame with the derived columns, a row with
\* fork_count = 0 has star_fork_ratio null, a row with fork_count > 0 has
\* stargazers_count / fork_count, and no division error is raised.
C12_DivisionGuard ==
    /\ df_polars.raised # "ZeroDivisionError"
    /\ tpc \in {"derived", "returned"} =>
          \A i \in DOMAIN df_polars.rows :
              LET row == df_polars.rows[i] IN
              /\ row["fork_count"] = TInt(0) => row["star_fork_ratio"] = TNull
              /\ row["fork_count"].k = "int" /\ row["fork_count"].n > 0 =>
                    row["star_fork_ratio"] = TFloat(row["stargazers_count"].n, row["fork_count"].n)

\* C13 (as claimed): transform([]) raises nothing at any stage and returns a
\* frame without rows.
C13_EmptyInput ==
    rows_in = <<>> =>
        /\ tpc # "raised"
        /\ tpc = "returned" => df_polars.rows = <<>>
====
